---- MODULE Spec2Model ----
(***************************************************************************)
(* Model of the RAG pipeline of llm_proposal_mvp:                          *)
(*   ingest.py : token_chunk (sliding token window chunker)                *)
(*   rag.py    : retrieve (vector query, greedy MMR or distance sort),     *)
(*               bm25_mix, rerank_cross_encoder, main                      *)
(* Distances are integers in tenths (dist 3 means 0.3), embeddings are     *)
(* unit vectors with integer coordinates in tenths.                        *)
(***************************************************************************)
EXTENDS Integers, Sequences, FiniteSets, TLC

\* ---------------------------------------------------------------- bounds
MaxLen == 6
MaxTokens == 3
MaxOverlap == 4
\* cap on emitted windows, so that a non-terminating call stays finite
MaxChunks == MaxLen + 2
\* largest requested k and largest number of index entries
MaxK == 3
MaxCorpus == 4
\* longest hit list handed to bm25_mix / rerank_cross_encoder on their own
MaxHits == 3
\* documents under data/ and runs of the ingestion script
MaxDocs == 3
MaxRuns == 2

\* ------------------------------------------------------- value domains
\* cosine distances of index entries to the query, in tenths
Dists == {1, 2, 9}
\* unit embedding vectors, coordinates in tenths
EmbVecs == {<<10, 0>>, <<0, 10>>}
\* BM25 scores and cross-encoder scores handed back by the scorers
BmVals == {0, 1, 2}
CeVals == {0, 1}
\* requested diversity_lambda in quarters (5 is 1.25) and
\* requested fusion_alpha in fifths (6 is 1.2)
LambdaVals == {3, 4, 5}
AlphaVals == {1, 6}
\* distances of the hits handed to bm25_mix on its own (0 is an exact match)
FnDists == {0, 1, 2}
\* token lengths of the documents under data/
DocLens == {1, 401, 721}

\* ------------------------------------------------------------- utilities
Min(a, b) == IF a < b THEN a ELSE b
Max(a, b) == IF a > b THEN a ELSE b
CeilDiv(a, b) == (a + b - 1) \div b

VARIABLES
  \* token_chunk
  cpc,          \* position in token_chunk: "loop", "done"
  toksLen,      \* len(toks)
  max_tokens,
  overlap,
  start,
  chunks        \* emitted windows, each the token range [start, end)

chunkVars == <<cpc, toksLen, max_tokens, overlap, start, chunks>>

VARIABLES
  \* rag.py main / retrieve
  pc,               \* position in main
  k,                \* args.k
  mmr,              \* USE_MMR
  lexical,          \* args.lexical
  rerank,           \* args.rerank or USE_RERANK
  diversity_lambda, \* requested lambda (quarters); no parameter carries it
  fusion_alpha,     \* requested alpha (fifths); main passes none
  corpus,           \* index entries, ascending distance to the query
  distances_key,    \* whether the query response carries "distances"
  res,              \* response of col.query
  items,            \* retrieve's items
  emb_chunks,       \* embeddings of the candidate texts
  selected,         \* MMR picks, in selection order
  cand_idx,         \* MMR candidates not picked yet
  hits,             \* main's hits
  contexts,         \* hits[:k] handed to generate_answer
  prompt,           \* entries of build_prompt's context_block
  stages,           \* stages entered so far, in order
  embedCalls,       \* number of embedder.encode calls
  queryCalls,       \* number of col.query calls
  n_results,        \* n_results of the last col.query
  ceCalls,          \* number of ce.predict calls
  err               \* exception that ended the request, "none" if none

cfgVars == <<k, mmr, lexical, rerank, diversity_lambda, fusion_alpha, corpus,
             distances_key>>
callVars == <<embedCalls, queryCalls, n_results, ceCalls>>
mmrVars == <<emb_chunks, selected, cand_idx>>
ragVars == <<pc, cfgVars, res, items, mmrVars, hits, contexts, prompt, stages,
             callVars, err>>

VARIABLES
  \* bm25_mix called on its own, twice on the same hits
  fpc,          \* "call1", "call2", "ret", "error"
  f_hits,       \* the hits argument
  bm_scores,    \* bm25.get_scores(query.split())
  alpha1,       \* alpha of the first call, in fifths
  alpha2,       \* alpha of the second call, in fifths
  mixed1,       \* result of the first call
  mixed2        \* result of the second call

fusionVars == <<fpc, f_hits, bm_scores, alpha1, alpha2, mixed1, mixed2>>

VARIABLES
  \* rerank_cross_encoder called on its own
  rpc,          \* "call", "ret"
  r_hits,       \* the hits argument
  scores,       \* ce.predict(pairs)
  ranked        \* the returned list

rerankVars == <<rpc, r_hits, scores, ranked>>

VARIABLES
  \* ingest.py main
  ipc,          \* "start", "chunk", "done"
  docs,         \* load_documents(DATA_DIR): token length of each document
  doc_i,        \* position of the for loop over docs
  rows,         \* ids, texts, metadatas built so far, one record per chunk
  index,        \* entries of the collection
  run,          \* which run of the script this is
  next_uuid     \* the next value uuid.uuid4() hands out

ingestVars == <<ipc, docs, doc_i, rows, index, run, next_uuid>>

VARIABLES
  \* several retrieval requests served side by side
  col,          \* the collection every request queries: its entries
  col0,         \* the entries of the collection when serving began
  cfg,          \* per request: the query and the Retrieval Config
  req           \* per request: position, items, hits, query count, error,
                \* and the requests that were under way when it queried

concVars == <<col, col0, cfg, req>>

fnVars == <<fusionVars, rerankVars, ingestVars, concVars>>

vars == <<chunkVars, ragVars, fnVars>>

FusionIdle ==
  /\ fpc = "idle"
  /\ f_hits = <<>>
  /\ bm_scores = <<>>
  /\ alpha1 = 0
  /\ alpha2 = 0
  /\ mixed1 = <<>>
  /\ mixed2 = <<>>

RerankIdle ==
  /\ rpc = "idle"
  /\ r_hits = <<>>
  /\ scores = <<>>
  /\ ranked = <<>>

IngestIdle ==
  /\ ipc = "idle"
  /\ docs = <<>>
  /\ doc_i = 0
  /\ rows = <<>>
  /\ index = {}
  /\ run = 0
  /\ next_uuid = 0

ConcIdle ==
  /\ col = <<>>
  /\ col0 = <<>>
  /\ cfg = <<>>
  /\ req = <<>>

FnIdle == FusionIdle /\ RerankIdle /\ IngestIdle /\ ConcIdle

ChunkIdle ==
  /\ cpc = "done"
  /\ toksLen = 0
  /\ max_tokens = 1
  /\ overlap = 0
  /\ start = 0
  /\ chunks = <<>>

RagIdle ==
  /\ pc = "idle"
  /\ k = 1
  /\ mmr = FALSE
  /\ lexical = FALSE
  /\ rerank = FALSE
  /\ diversity_lambda = 3
  /\ fusion_alpha = 1
  /\ corpus = <<>>
  /\ distances_key = TRUE
  /\ res = <<>>
  /\ items = <<>>
  /\ emb_chunks = <<>>
  /\ selected = <<>>
  /\ cand_idx = {}
  /\ hits = <<>>
  /\ contexts = <<>>
  /\ prompt = <<>>
  /\ stages = <<>>
  /\ embedCalls = 0
  /\ queryCalls = 0
  /\ n_results = 0
  /\ ceCalls = 0
  /\ err = "none"

\* ------------------------------------------------------------ token_chunk
\* end = min(start + max_tokens, len(toks))
WindowEnd_NoClip(s, mt, n) == s + mt
WindowEnd(s, mt, n) == Min(s + mt, n)

\* if end == len(toks): break
AtEnd_NoBreak(e, n) == FALSE
AtEnd(e, n) == e = n

\* start = max(0, end - overlap)
NextStart_Skip(e, ov) == Max(0, e - ov) + 1
NextStart(e, ov) == Max(0, e - ov)

\* toks = enc.encode(text); chunks = []; start = 0
InitChunk ==
  /\ cpc = "loop"
  /\ toksLen \in 0..MaxLen
  /\ max_tokens \in 1..MaxTokens
  /\ overlap \in 0..MaxOverlap
  /\ start = 0
  /\ chunks = <<>>
  /\ RagIdle
  /\ FnIdle

\* while start < len(toks) is false: return chunks
ChunkExit ==
  /\ cpc = "loop"
  /\ ~(start < toksLen)
  /\ cpc' = "done"
  /\ UNCHANGED <<toksLen, max_tokens, overlap, start, chunks>>
  /\ UNCHANGED ragVars
  /\ UNCHANGED fnVars

\* one iteration that appends the window and breaks
ChunkLast ==
  /\ cpc = "loop"
  /\ start < toksLen
  /\ Len(chunks) < MaxChunks
  /\ LET end == WindowEnd(start, max_tokens, toksLen) IN
       /\ AtEnd(end, toksLen)
       /\ chunks' = Append(chunks, [start |-> start, end |-> end])
       /\ cpc' = "done"
  /\ UNCHANGED <<toksLen, max_tokens, overlap, start>>
  /\ UNCHANGED ragVars
  /\ UNCHANGED fnVars

\* one iteration that appends the window and moves start
ChunkMore ==
  /\ cpc = "loop"
  /\ start < toksLen
  /\ Len(chunks) < MaxChunks
  /\ LET end == WindowEnd(start, max_tokens, toksLen) IN
       /\ ~AtEnd(end, toksLen)
       /\ chunks' = Append(chunks, [start |-> start, end |-> end])
       /\ start' = NextStart(end, overlap)
  /\ UNCHANGED <<cpc, toksLen, max_tokens, overlap>>
  /\ UNCHANGED ragVars
  /\ UNCHANGED fnVars

NextChunk == ChunkExit \/ ChunkLast \/ ChunkMore

SpecChunk == InitChunk /\ [][NextChunk]_vars

\* -------------------------------------------------------------- retrieve
\* Python's s[:n]
PyHead(s, n) ==
  IF n >= 0 THEN SubSeq(s, 1, Min(n, Len(s)))
  ELSE SubSeq(s, 1, Max(0, Len(s) + n))

\* n_results = max(k*3 if mmr else k, k)
NResults_NoTriple(kk, m) == Max(kk, kk)
NResults(kk, m) == Max(IF m THEN kk * 3 ELSE kk, kk)

\* sorted(items, key=lambda x: x["dist"]): stable, ascending
RECURSIVE InsertByDist_Unstable(_, _)
InsertByDist_Unstable(s, x) ==
  IF s = <<>> THEN <<x>>
  ELSE IF x.dist <= Head(s).dist THEN <<x>> \o s
  ELSE <<Head(s)>> \o InsertByDist_Unstable(Tail(s), x)

RECURSIVE InsertByDist(_, _)
InsertByDist(s, x) ==
  IF s = <<>> THEN <<x>>
  ELSE IF x.dist < Head(s).dist THEN <<x>> \o s
  ELSE <<Head(s)>> \o InsertByDist(Tail(s), x)

RECURSIVE SortByDist(_)
SortByDist(s) ==
  IF s = <<>> THEN <<>>
  ELSE InsertByDist(SortByDist(SubSeq(s, 1, Len(s) - 1)), s[Len(s)])

\* np.dot(emb_chunks[i], emb_chunks[j]), in hundredths
Dot(a, b) == a[1] * b[1] + a[2] * b[2]

MaxOf(S) == CHOOSE m \in S : \A x \in S : x <= m

\* lam = 0.75
LamNum == 3
LamDen == 4
\* a distance of 1.0 in the model's tenths
DistOne == 10

\* mmr_score(i) = lam*qsim - (1-lam)*diversity, times 100*LamDen
mmr_score(its, emb, sel, i) ==
  LET qsim == DistOne - its[i].dist
      diversity == MaxOf({Dot(emb[i], emb[sel[j]]) : j \in 1..Len(sel)})
  IN  LamNum * qsim * DistOne - (LamDen - LamNum) * diversity

\* min(cand_idx, key=...): the first minimal candidate in iteration order
\* (a set of small ints iterates in ascending order)
ArgMinFirst(S, f) ==
  CHOOSE i \in S : \A j \in S : f[i] < f[j] \/ (f[i] = f[j] /\ i <= j)

\* max(cand_idx, key=mmr_score): the first maximal candidate
ArgMaxFirst_Last(S, f) ==
  CHOOSE i \in S : \A j \in S : f[i] > f[j] \/ (f[i] = f[j] /\ i >= j)
ArgMaxFirst(S, f) ==
  CHOOSE i \in S : \A j \in S : f[i] > f[j] \/ (f[i] = f[j] /\ i <= j)

\* cand_idx.remove(best)
Remaining_Keep(c, best) == c
Remaining(c, best) == c \ {best}

\* while cand_idx and len(selected) < k
MmrContinue(c, sel, kk) == c # {} /\ Len(sel) < kk

\* [:k] of the distance-sorted items
TopK(s, kk) == PyHead(s, kk)

\* index entries in ascending distance to the query, identified by position
IsAscending(d) == \A i \in 1..(Len(d) - 1) : d[i] <= d[i + 1]
EntriesOf(d) == [i \in 1..Len(d) |-> [id |-> i, dist |-> d[i]]]
Corpora ==
  UNION { {EntriesOf(d) : d \in {x \in [1..n -> Dists] : IsAscending(x)}} :
            n \in 0..MaxCorpus }

\* ----------------------------------------------- bm25_mix, rerank
\* alpha: float = 0.2
AlphaNum == 1
AlphaDen == 5
\* 1e-9 against the distance unit: one part in EpsInv
EpsInv == 1000

MaxDistOf(h) == MaxOf({h[i].dist : i \in 1..Len(h)})

\* mixed = alpha*bm_scores + (1-alpha)*sim with
\* sim = 1 - dist/(dist.max() + 1e-9), times AlphaDen*(dist.max() + 1e-9)
Mixed_Swapped(h, bm, aN, i) ==
  LET D == MaxDistOf(h) * EpsInv + 1
  IN  (AlphaDen - aN) * bm[i] * D + aN * (D - h[i].dist * EpsInv)
Mixed(h, bm, aN, i) ==
  LET D == MaxDistOf(h) * EpsInv + 1
  IN  aN * bm[i] * D + (AlphaDen - aN) * (D - h[i].dist * EpsInv)

Perms(n) == {f \in [1..n -> 1..n] : \A i, j \in 1..n : f[i] = f[j] => i = j}

Reverse(s) == [i \in 1..Len(s) |-> s[Len(s) + 1 - i]]

\* mixed.argsort(): an ascending order of the indices; equal scores come out
\* in an order the sort kernel chooses
Argsorts(h, bm, aN) ==
  {o \in Perms(Len(h)) :
     \A i \in 1..(Len(h) - 1) : Mixed(h, bm, aN, o[i]) <= Mixed(h, bm, aN, o[i + 1])}

\* order = mixed.argsort()[::-1]; [hits[i] for i in order]
bm25_mix(h, bm, aN) ==
  {[i \in 1..Len(h) |-> h[Reverse(o)[i]]] : o \in Argsorts(h, bm, aN)}

\* sorted(zip(hits, scores), key=lambda x: x[1], reverse=True): stable
RECURSIVE InsertByScore_Unstable(_, _, _)
InsertByScore_Unstable(o, i, sc) ==
  IF o = <<>> THEN <<i>>
  ELSE IF sc[i] >= sc[Head(o)] THEN <<i>> \o o
  ELSE <<Head(o)>> \o InsertByScore_Unstable(Tail(o), i, sc)

RECURSIVE InsertByScore(_, _, _)
InsertByScore(o, i, sc) ==
  IF o = <<>> THEN <<i>>
  ELSE IF sc[i] > sc[Head(o)] THEN <<i>> \o o
  ELSE <<Head(o)>> \o InsertByScore(Tail(o), i, sc)

RECURSIVE OrderByScore(_, _)
OrderByScore(n, sc) ==
  IF n = 0 THEN <<>> ELSE InsertByScore(OrderByScore(n - 1, sc), n, sc)

rerank_cross_encoder_Positive(h, sc) ==
  LET o == OrderByScore(Len(h), sc)
      ok == SelectSeq(o, LAMBDA i : sc[i] > 0)
  IN  [i \in 1..Len(ok) |-> h[ok[i]]]

rerank_cross_encoder(h, sc) ==
  LET o == OrderByScore(Len(h), sc) IN [i \in 1..Len(h) |-> h[o[i]]]

\* ------------------------------------------------------------------ main
InitRag ==
  /\ ChunkIdle
  /\ FnIdle
  /\ pc = "start"
  /\ k \in 0..MaxK
  /\ mmr \in BOOLEAN
  /\ lexical \in BOOLEAN
  /\ rerank \in BOOLEAN
  /\ diversity_lambda \in LambdaVals
  /\ fusion_alpha \in AlphaVals
  /\ corpus \in Corpora
  /\ distances_key \in BOOLEAN
  /\ res = <<>>
  /\ items = <<>>
  /\ emb_chunks = <<>>
  /\ selected = <<>>
  /\ cand_idx = {}
  /\ hits = <<>>
  /\ contexts = <<>>
  /\ prompt = <<>>
  /\ stages = <<>>
  /\ embedCalls = 0
  /\ queryCalls = 0
  /\ n_results = 0
  /\ ceCalls = 0
  /\ err = "none"

\* q_emb = embedder.encode([query], ...)
EmbedQuery ==
  /\ pc = "start"
  /\ embedCalls' = embedCalls + 1
  /\ pc' = "query"
  /\ UNCHANGED <<cfgVars, res, items, mmrVars, hits, contexts, prompt, queryCalls, n_results, ceCalls, err>>
  /\ UNCHANGED stages
  /\ UNCHANGED chunkVars
  /\ UNCHANGED fnVars

\* col.query with n_results <= 0: the index refuses the request
QueryRefused ==
  /\ pc = "query"
  /\ NResults(k, mmr) <= 0
  /\ n_results' = NResults(k, mmr)
  /\ queryCalls' = queryCalls + 1
  /\ pc' = "error"
  /\ err' = "index"
  /\ UNCHANGED <<cfgVars, res, items, mmrVars, hits, contexts, prompt, embedCalls, ceCalls>>
  /\ stages' = Append(stages, "fetch")
  /\ UNCHANGED chunkVars
  /\ UNCHANGED fnVars

\* dists = res["distances"][0] if "distances" in res else [0.0]*len(docs)
Dists0(r, haskey) ==
  IF haskey THEN r ELSE [i \in 1..Len(r) |-> [id |-> r[i].id, dist |-> 0]]

\* res = col.query(...); items = [{"doc", "meta", "dist"} ...]
Query ==
  /\ pc = "query"
  /\ NResults(k, mmr) > 0
  /\ n_results' = NResults(k, mmr)
  /\ queryCalls' = queryCalls + 1
  /\ res' = Dists0(SubSeq(corpus, 1, Min(NResults(k, mmr), Len(corpus))),
                   distances_key)
  /\ items' = res'
  /\ pc' = IF mmr THEN "embed_chunks" ELSE "sort"
  /\ UNCHANGED <<cfgVars, mmrVars, hits, contexts, prompt, embedCalls, ceCalls, err>>
  /\ stages' = Append(stages, "fetch")
  /\ UNCHANGED chunkVars
  /\ UNCHANGED fnVars

\* else: items = sorted(items, key=dist)[:k]; return items
SortTruncate ==
  /\ pc = "sort"
  /\ items' = TopK(SortByDist(items), k)
  /\ hits' = items'
  /\ pc' = "fusion"
  /\ UNCHANGED <<cfgVars, res, mmrVars, contexts, prompt, callVars, err>>
  /\ stages' = Append(stages, "sort")
  /\ UNCHANGED chunkVars
  /\ UNCHANGED fnVars

\* embedder.encode(texts) and ce.predict(pairs) take the whole list: one call
EncodeCalls(texts) == 1
PredictCalls_PerHit(pairs) == Len(pairs)
PredictCalls(pairs) == 1

\* emb_chunks = embedder.encode([it["doc"] for it in items], ...)
EmbedChunks ==
  /\ pc = "embed_chunks"
  /\ \E e \in [1..Len(items) -> EmbVecs] : emb_chunks' = e
  /\ embedCalls' = embedCalls + EncodeCalls(items)
  /\ selected' = <<>>
  /\ cand_idx' = 1..Len(items)
  /\ pc' = "mmr_loop"
  /\ UNCHANGED <<cfgVars, res, items, hits, contexts, prompt, queryCalls, n_results, ceCalls, err>>
  /\ stages' = Append(stages, "diversity")
  /\ UNCHANGED chunkVars
  /\ UNCHANGED fnVars

\* first pick: best = min(cand_idx, key=dist)
MmrFirst ==
  /\ pc = "mmr_loop"
  /\ MmrContinue(cand_idx, selected, k)
  /\ selected = <<>>
  /\ LET dist == [i \in cand_idx |-> items[i].dist]
         best == ArgMinFirst(cand_idx, dist)
     IN  /\ selected' = Append(selected, best)
         /\ cand_idx' = Remaining(cand_idx, best)
  /\ UNCHANGED <<pc, cfgVars, res, items, emb_chunks, hits, contexts, prompt, callVars, err>>
  /\ UNCHANGED stages
  /\ UNCHANGED chunkVars
  /\ UNCHANGED fnVars

\* later picks: best = max(cand_idx, key=mmr_score)
MmrPick ==
  /\ pc = "mmr_loop"
  /\ MmrContinue(cand_idx, selected, k)
  /\ selected # <<>>
  /\ LET score == [i \in cand_idx |-> mmr_score(items, emb_chunks, selected, i)]
         best == ArgMaxFirst(cand_idx, score)
     IN  /\ selected' = Append(selected, best)
         /\ cand_idx' = Remaining(cand_idx, best)
  /\ UNCHANGED <<pc, cfgVars, res, items, emb_chunks, hits, contexts, prompt, callVars, err>>
  /\ UNCHANGED stages
  /\ UNCHANGED chunkVars
  /\ UNCHANGED fnVars

\* items = [items[i] for i in selected]; return items
MmrExit ==
  /\ pc = "mmr_loop"
  /\ ~MmrContinue(cand_idx, selected, k)
  /\ items' = [i \in 1..Len(selected) |-> items[selected[i]]]
  /\ hits' = items'
  /\ emb_chunks' = <<>>
  /\ pc' = "fusion"
  /\ UNCHANGED <<cfgVars, res, selected, cand_idx, contexts, prompt, callVars, err>>
  /\ UNCHANGED stages
  /\ UNCHANGED chunkVars
  /\ UNCHANGED fnVars

\* if args.lexical: hits = bm25_mix(args.q, hits)
Bm25Mix ==
  /\ pc = "fusion"
  /\ lexical
  /\ hits # <<>>
  /\ \E bm \in [1..Len(hits) -> BmVals] :
       \E h \in bm25_mix(hits, bm, AlphaNum) : hits' = h
  /\ pc' = "rerank"
  /\ UNCHANGED <<cfgVars, res, items, mmrVars, contexts, prompt, callVars, err>>
  /\ stages' = Append(stages, "fusion")
  /\ UNCHANGED chunkVars
  /\ UNCHANGED fnVars

\* bm25_mix on no hits: BM25Okapi([]) divides by the corpus size 0
\* (and dist.max() of an empty array has no value)
Bm25Fail ==
  /\ pc = "fusion"
  /\ lexical
  /\ hits = <<>>
  /\ pc' = "error"
  /\ err' = "bm25"
  /\ UNCHANGED <<cfgVars, res, items, mmrVars, hits, contexts, prompt, callVars>>
  /\ stages' = Append(stages, "fusion")
  /\ UNCHANGED chunkVars
  /\ UNCHANGED fnVars

SkipFusion ==
  /\ pc = "fusion"
  /\ ~lexical
  /\ pc' = "rerank"
  /\ UNCHANGED <<cfgVars, res, items, mmrVars, hits, contexts, prompt, callVars, err>>
  /\ UNCHANGED stages
  /\ UNCHANGED chunkVars
  /\ UNCHANGED fnVars

\* if args.rerank or USE_RERANK: hits = rerank_cross_encoder(args.q, hits)
Rerank ==
  /\ pc = "rerank"
  /\ rerank
  /\ \E sc \in [1..Len(hits) -> CeVals] : hits' = rerank_cross_encoder(hits, sc)
  /\ ceCalls' = ceCalls + PredictCalls(hits)
  /\ pc' = "generate"
  /\ UNCHANGED <<cfgVars, res, items, mmrVars, contexts, prompt, embedCalls, queryCalls, n_results, err>>
  /\ stages' = Append(stages, "rerank")
  /\ UNCHANGED chunkVars
  /\ UNCHANGED fnVars

SkipRerank ==
  /\ pc = "rerank"
  /\ ~rerank
  /\ pc' = "generate"
  /\ UNCHANGED <<cfgVars, res, items, mmrVars, hits, contexts, prompt, callVars, err>>
  /\ UNCHANGED stages
  /\ UNCHANGED chunkVars
  /\ UNCHANGED fnVars

\* metadata and text of an index entry: entries 1, 2 are chunks 0, 1 of
\* source 1, entries 3, 4 are chunks 0, 1 of source 2, ...
SourceOf(h) == (h.id + 1) \div 2
ChunkIdxOf(h) == (h.id + 1) % 2
DocOf(h) == h.id

\* "[{i+1}] SOURCE: {source} (chunk {chunk_idx})\n{doc}" for i, c in
\* enumerate(contexts)
build_prompt_ZeroBased(ctx) ==
  [i \in 1..Len(ctx) |->
     [index |-> i - 1, source |-> SourceOf(ctx[i]),
      chunk_idx |-> ChunkIdxOf(ctx[i]), doc |-> DocOf(ctx[i])]]
build_prompt(ctx) ==
  [i \in 1..Len(ctx) |->
     [index |-> i, source |-> SourceOf(ctx[i]),
      chunk_idx |-> ChunkIdxOf(ctx[i]), doc |-> DocOf(ctx[i])]]

\* answer = generate_answer(args.q, hits[:args.k])
Generate ==
  /\ pc = "generate"
  /\ contexts' = PyHead(hits, k)
  /\ prompt' = build_prompt(contexts')
  /\ pc' = "done"
  /\ UNCHANGED <<cfgVars, res, items, mmrVars, hits, callVars, err>>
  /\ stages' = Append(stages, "truncate")
  /\ UNCHANGED chunkVars
  /\ UNCHANGED fnVars

Next ==
  \/ EmbedQuery \/ QueryRefused \/ Query
  \/ SortTruncate \/ EmbedChunks \/ MmrFirst \/ MmrPick \/ MmrExit
  \/ Bm25Mix \/ Bm25Fail \/ SkipFusion
  \/ Rerank \/ SkipRerank \/ Generate

Spec == InitRag /\ [][Next]_vars

\* ------------------------------------------------ bm25_mix on its own
HitSeqs(ds) == UNION { {EntriesOf(d) : d \in [1..n -> ds]} : n \in 0..MaxHits }

InitFusion ==
  /\ ChunkIdle
  /\ RagIdle
  /\ fpc = "call1"
  /\ f_hits \in HitSeqs(FnDists)
  /\ bm_scores \in [1..Len(f_hits) -> BmVals]
  /\ alpha1 \in 0..AlphaDen
  /\ alpha2 \in alpha1..AlphaDen
  /\ mixed1 = <<>>
  /\ mixed2 = <<>>
  /\ RerankIdle
  /\ IngestIdle
  /\ ConcIdle

\* bm25_mix(query, hits, alpha1)
FusionCall1 ==
  /\ fpc = "call1"
  /\ f_hits # <<>>
  /\ mixed1' \in bm25_mix(f_hits, bm_scores, alpha1)
  /\ fpc' = "call2"
  /\ UNCHANGED <<f_hits, bm_scores, alpha1, alpha2, mixed2>>
  /\ UNCHANGED <<chunkVars, ragVars, rerankVars, ingestVars, concVars>>

\* bm25_mix(query, hits, alpha2) on the same hits
FusionCall2 ==
  /\ fpc = "call2"
  /\ mixed2' \in bm25_mix(f_hits, bm_scores, alpha2)
  /\ fpc' = "ret"
  /\ UNCHANGED <<f_hits, bm_scores, alpha1, alpha2, mixed1>>
  /\ UNCHANGED <<chunkVars, ragVars, rerankVars, ingestVars, concVars>>

\* bm25_mix on no hits raises
FusionFail ==
  /\ fpc = "call1"
  /\ f_hits = <<>>
  /\ fpc' = "error"
  /\ UNCHANGED <<f_hits, bm_scores, alpha1, alpha2, mixed1, mixed2>>
  /\ UNCHANGED <<chunkVars, ragVars, rerankVars, ingestVars, concVars>>

NextFusion == FusionCall1 \/ FusionCall2 \/ FusionFail

SpecFusion == InitFusion /\ [][NextFusion]_vars

\* ------------------------------------ rerank_cross_encoder on its own
\* texts the hits may carry: the same text may come back more than once
HitPool == {[id |-> i, dist |-> 1] : i \in 1..MaxHits}
PoolSeqs == UNION { [1..n -> HitPool] : n \in 0..MaxHits }

InitRerank ==
  /\ ChunkIdle
  /\ RagIdle
  /\ FusionIdle
  /\ IngestIdle
  /\ ConcIdle
  /\ rpc = "call"
  /\ r_hits \in PoolSeqs
  /\ \E ce \in [1..MaxHits -> CeVals] :
       scores = [i \in 1..Len(r_hits) |-> ce[r_hits[i].id]]
  /\ ranked = <<>>

\* rerank_cross_encoder(query, hits)
RerankCall ==
  /\ rpc = "call"
  /\ ranked' = rerank_cross_encoder(r_hits, scores)
  /\ rpc' = "ret"
  /\ UNCHANGED <<r_hits, scores>>
  /\ UNCHANGED <<chunkVars, ragVars, fusionVars, ingestVars, concVars>>

NextRerank == RerankCall

SpecRerank == InitRerank /\ [][NextRerank]_vars

\* --------------------------------------------------- ingest.py main()
CHUNK_TOKENS == 400
CHUNK_OVERLAP == 80

\* len(token_chunk(full_text)) for a text of n tokens, counted from start s
RECURSIVE ChunkCount(_, _)
ChunkCount(s, n) ==
  IF ~(s < n) THEN 0
  ELSE LET e == WindowEnd(s, CHUNK_TOKENS, n)
       IN  IF AtEnd(e, n) THEN 1
           ELSE 1 + ChunkCount(NextStart(e, CHUNK_OVERLAP), n)

\* load_documents keeps the files whose text is not blank; a document is
\* known by its position (its path) and its token count
DocSeqs == UNION { [1..n -> DocLens] : n \in 0..MaxDocs }

\* the persisted collection starts empty; the data directory is fixed
InitIngest ==
  /\ ChunkIdle
  /\ RagIdle
  /\ FusionIdle
  /\ RerankIdle
  /\ ConcIdle
  /\ ipc = "start"
  /\ docs \in DocSeqs
  /\ doc_i = 0
  /\ rows = <<>>
  /\ index = {}
  /\ run = 1
  /\ next_uuid = 1

\* if not docs: print(...); return
IngestNoDocs ==
  /\ ipc = "start"
  /\ docs = <<>>
  /\ ipc' = "done"
  /\ UNCHANGED <<docs, doc_i, rows, index, run, next_uuid>>
  /\ UNCHANGED <<chunkVars, ragVars, fusionVars, rerankVars, concVars>>

\* ids, texts, metadatas = [], [], []
IngestStart ==
  /\ ipc = "start"
  /\ docs # <<>>
  /\ ipc' = "chunk"
  /\ doc_i' = 1
  /\ rows' = <<>>
  /\ UNCHANGED <<docs, index, run, next_uuid>>
  /\ UNCHANGED <<chunkVars, ragVars, fusionVars, rerankVars, concVars>>

\* one pass of "for path, full_text in docs": every chunk gets a new uuid4
IngestDoc ==
  /\ ipc = "chunk"
  /\ doc_i <= Len(docs)
  /\ LET n == ChunkCount(0, docs[doc_i])
     IN  /\ rows' = rows \o [i \in 1..n |->
                       [id |-> next_uuid + i - 1, source |-> doc_i,
                        chunk_idx |-> i - 1, run |-> run]]
         /\ next_uuid' = next_uuid + n
  /\ doc_i' = doc_i + 1
  /\ UNCHANGED <<ipc, docs, index, run>>
  /\ UNCHANGED <<chunkVars, ragVars, fusionVars, rerankVars, concVars>>

\* collection.upsert: an entry with a known id is replaced, others are added
Upsert(ix, rs) ==
  {e \in ix : \A i \in 1..Len(rs) : rs[i].id # e.id}
    \cup {rs[i] : i \in 1..Len(rs)}

\* embedder.encode(texts); collection.upsert(...); print("[DONE] ...")
IngestUpsert ==
  /\ ipc = "chunk"
  /\ doc_i > Len(docs)
  /\ index' = Upsert(index, rows)
  /\ ipc' = "done"
  /\ UNCHANGED <<docs, doc_i, rows, run, next_uuid>>
  /\ UNCHANGED <<chunkVars, ragVars, fusionVars, rerankVars, concVars>>

\* python ingest.py is run again over the same data directory
IngestAgain ==
  /\ ipc = "done"
  /\ run < MaxRuns
  /\ run' = run + 1
  /\ ipc' = "start"
  /\ doc_i' = 0
  /\ rows' = <<>>
  /\ UNCHANGED <<docs, index, next_uuid>>
  /\ UNCHANGED <<chunkVars, ragVars, fusionVars, rerankVars, concVars>>

NextIngest ==
  \/ IngestNoDocs
  \/ IngestStart
  \/ IngestDoc
  \/ IngestUpsert
  \/ IngestAgain

SpecIngest == InitIngest /\ [][NextIngest]_vars

\* ------------------------------ several retrieval requests side by side
Requests == {1, 2}
Queries == {1, 2}

\* the embedder, BM25 and the cross-encoder are functions of their inputs:
\* cosine distance of an entry to a query in tenths, embedding of an entry,
\* BM25 scores of a hit list, cross-encoder scores of (query, hit) pairs
QDist(q, id) == ((id * q) % 3) + 1
EmbOf(id) == IF id % 2 = 1 THEN <<10, 0>> ELSE <<0, 10>>
BmOf(q, h) == [i \in 1..Len(h) |-> (h[i].id + q + Len(h)) % 3]
CeOf(q, h) == [i \in 1..Len(h) |-> (h[i].id + q) % 2]

\* col.query(query_embeddings=[q_emb], n_results=n): the n nearest entries
col_query(c, q, n) ==
  PyHead(SortByDist([i \in 1..Len(c) |-> [id |-> c[i], dist |-> QDist(q, c[i])]]),
         n)

\* the while loop of retrieve, from cand_idx = c and selected = sel
RECURSIVE MmrSelect(_, _, _, _, _)
MmrSelect(its, emb, c, sel, kk) ==
  IF ~MmrContinue(c, sel, kk) THEN sel
  ELSE LET best == IF sel = <<>>
                   THEN ArgMinFirst(c, [i \in c |-> its[i].dist])
                   ELSE ArgMaxFirst(c, [i \in c |->
                                          mmr_score(its, emb, sel, i)])
       IN  MmrSelect(its, emb, Remaining(c, best), Append(sel, best), kk)

\* retrieve after the query: the MMR branch or sorted(items)[:k]
rank(its, kk, m) ==
  IF m
  THEN LET emb == [i \in 1..Len(its) |-> EmbOf(its[i].id)]
           sel == MmrSelect(its, emb, 1..Len(its), <<>>, kk)
       IN  [i \in 1..Len(sel) |-> its[sel[i]]]
  ELSE TopK(SortByDist(its), kk)

retrieve(c, q, kk, m) == rank(col_query(c, q, NResults(kk, m)), kk, m)

\* what retrieve, bm25_mix and rerank_cross_encoder give a request that has
\* collection c to itself
AloneOutcomes(c, g) ==
  LET h1 == retrieve(c, g.q, g.k, g.mmr)
      fused == IF ~g.lexical THEN {h1}
               ELSE IF h1 = <<>> THEN {}
               ELSE bm25_mix(h1, BmOf(g.q, h1), AlphaNum)
  IN  IF g.lexical /\ h1 = <<>>
      THEN {[hits |-> <<>>, err |-> "bm25"]}
      ELSE {[hits |-> IF g.rerank
                      THEN rerank_cross_encoder(h, CeOf(g.q, h))
                      ELSE h,
             err |-> "none"] : h \in fused}

\* items and hits are locals of retrieve and main: each request has its own
FrameOf_Global(r) == 1
FrameOf(r) == r

Cfgs == [q : Queries, k : 1..MaxK, mmr : BOOLEAN, lexical : BOOLEAN,
         rerank : BOOLEAN]

InFlight(o) == req[FrameOf(o)].pc \notin {"start", "done", "error"}

InitConc ==
  /\ ChunkIdle
  /\ RagIdle
  /\ FusionIdle
  /\ RerankIdle
  /\ IngestIdle
  /\ \E n \in 0..MaxCorpus : col = [i \in 1..n |-> i]
  /\ col0 = col
  /\ cfg \in [Requests -> Cfgs]
  /\ req = [r \in Requests |->
              [pc |-> "start", items |-> <<>>, hits |-> <<>>, queries |-> 0,
               err |-> "none", during |-> {}]]

\* q_emb = embedder.encode([query]); res = col.query(...); items = [...]
ReqQuery(r) ==
  LET f == FrameOf(r)
  IN  /\ req[f].pc = "start"
      /\ req' = [req EXCEPT
                   ![f].items = col_query(col, cfg[r].q,
                                          NResults(cfg[r].k, cfg[r].mmr)),
                   ![f].queries = @ + 1,
                   ![f].during = {o \in Requests \ {r} : InFlight(o)},
                   ![f].pc = "rank"]
      /\ UNCHANGED <<col, col0, cfg>>
      /\ UNCHANGED <<chunkVars, ragVars, fusionVars, rerankVars, ingestVars>>

\* the rest of retrieve: hits = retrieve(...)
ReqRank(r) ==
  LET f == FrameOf(r)
  IN  /\ req[f].pc = "rank"
      /\ LET h == rank(req[f].items, cfg[r].k, cfg[r].mmr)
         IN  req' = [req EXCEPT ![f].items = h, ![f].hits = h,
                                ![f].pc = "fusion"]
      /\ UNCHANGED <<col, col0, cfg>>
      /\ UNCHANGED <<chunkVars, ragVars, fusionVars, rerankVars, ingestVars>>

\* if args.lexical: hits = bm25_mix(args.q, hits)
ReqFusion(r) ==
  LET f == FrameOf(r)
  IN  /\ req[f].pc = "fusion"
      /\ cfg[r].lexical
      /\ req[f].hits # <<>>
      /\ \E h \in bm25_mix(req[f].hits, BmOf(cfg[r].q, req[f].hits), AlphaNum) :
           req' = [req EXCEPT ![f].hits = h, ![f].pc = "rerank"]
      /\ UNCHANGED <<col, col0, cfg>>
      /\ UNCHANGED <<chunkVars, ragVars, fusionVars, rerankVars, ingestVars>>

\* bm25_mix on no hits raises
ReqFusionFail(r) ==
  LET f == FrameOf(r)
  IN  /\ req[f].pc = "fusion"
      /\ cfg[r].lexical
      /\ req[f].hits = <<>>
      /\ req' = [req EXCEPT ![f].err = "bm25", ![f].pc = "error"]
      /\ UNCHANGED <<col, col0, cfg>>
      /\ UNCHANGED <<chunkVars, ragVars, fusionVars, rerankVars, ingestVars>>

ReqSkipFusion(r) ==
  LET f == FrameOf(r)
  IN  /\ req[f].pc = "fusion"
      /\ ~cfg[r].lexical
      /\ req' = [req EXCEPT ![f].pc = "rerank"]
      /\ UNCHANGED <<col, col0, cfg>>
      /\ UNCHANGED <<chunkVars, ragVars, fusionVars, rerankVars, ingestVars>>

\* if args.rerank or USE_RERANK: hits = rerank_cross_encoder(args.q, hits)
ReqRerank(r) ==
  LET f == FrameOf(r)
  IN  /\ req[f].pc = "rerank"
      /\ cfg[r].rerank
      /\ req' = [req EXCEPT
                   ![f].hits = rerank_cross_encoder(
                                 req[f].hits, CeOf(cfg[r].q, req[f].hits)),
                   ![f].pc = "done"]
      /\ UNCHANGED <<col, col0, cfg>>
      /\ UNCHANGED <<chunkVars, ragVars, fusionVars, rerankVars, ingestVars>>

ReqSkipRerank(r) ==
  LET f == FrameOf(r)
  IN  /\ req[f].pc = "rerank"
      /\ ~cfg[r].rerank
      /\ req' = [req EXCEPT ![f].pc = "done"]
      /\ UNCHANGED <<col, col0, cfg>>
      /\ UNCHANGED <<chunkVars, ragVars, fusionVars, rerankVars, ingestVars>>

NextConc ==
  \E r \in Requests :
    \/ ReqQuery(r)
    \/ ReqRank(r)
    \/ ReqFusion(r)
    \/ ReqFusionFail(r)
    \/ ReqSkipFusion(r)
    \/ ReqRerank(r)
    \/ ReqSkipRerank(r)

SpecConc == InitConc /\ [][NextConc]_vars

\* ================================================================ claims
\* ------------------------------------------------ token_chunk (SpecChunk)
ValidChunkCfg == 0 <= overlap /\ overlap < max_tokens
WindowBound == CeilDiv(toksLen, max_tokens - overlap)
EndsAtLen == {i \in 1..Len(chunks) : chunks[i].end = toksLen}

\* C2 as stated: with 0 <= overlap < max_tokens and any len >= 0, the loop
\* is over within ceil(len/(max_tokens-overlap)) windows and, once it has
\* returned, exactly one emitted window, the last one, ends at len.
C2_BoundedAndOneFinalWindow ==
  ValidChunkCfg =>
    /\ Len(chunks) <= WindowBound
    /\ (cpc = "loop" /\ start < toksLen) => Len(chunks) < WindowBound
    /\ cpc = "done" =>
         /\ Cardinality(EndsAtLen) = 1
         /\ chunks[Len(chunks)].end = toksLen

\* C2 amended: the window bound holds for every len >= 0; for len >= 1
\* exactly one emitted window, the last one, ends at len; for len = 0 no
\* window is emitted at all.
C2_BoundedAndOneFinalWindowNonEmpty ==
  ValidChunkCfg =>
    /\ Len(chunks) <= WindowBound
    /\ (cpc = "loop" /\ start < toksLen) => Len(chunks) < WindowBound
    /\ (cpc = "done" /\ toksLen >= 1) =>
         /\ Cardinality(EndsAtLen) = 1
         /\ chunks[Len(chunks)].end = toksLen
    /\ toksLen = 0 => chunks = <<>>

C2_Witness ==
  /\ ValidChunkCfg
  /\ cpc = "done"
  /\ overlap >= 1
  /\ Len(chunks) >= 3
  /\ Len(chunks) = WindowBound

\* C3 as stated: a call with overlap >= max_tokens is rejected before any
\* chunk is produced, whatever the text.
C3_InvalidOverlapProducesNothing ==
  overlap >= max_tokens => chunks = <<>>

\* C5: once token_chunk has returned, its windows cover every token position
\* 0..len-1: the first starts at 0, each next one starts at the previous
\* end minus overlap, which is not past the previous end, and the last one
\* ends at len.
C5_WindowsCoverAllTokens ==
  cpc = "done" =>
    /\ \A p \in 0..(toksLen - 1) :
         \E i \in 1..Len(chunks) : chunks[i].start <= p /\ p < chunks[i].end
    /\ chunks # <<>> =>
         /\ chunks[1].start = 0
         /\ chunks[Len(chunks)].end = toksLen
    /\ \A i \in 1..(Len(chunks) - 1) :
         /\ chunks[i + 1].start = chunks[i].end - overlap
         /\ chunks[i + 1].start <= chunks[i].end

C5_Witness ==
  /\ cpc = "done"
  /\ overlap >= 1
  /\ Len(chunks) >= 3
  /\ chunks[2].start < chunks[1].end

\* C6: every window spans at most max_tokens tokens; an empty text gives no
\* chunk and a non-empty text of at most max_tokens tokens gives exactly one.
C6_ChunkSizeAndEdgeCases ==
  /\ \A i \in 1..Len(chunks) : chunks[i].end - chunks[i].start <= max_tokens
  /\ (cpc = "done" /\ toksLen = 0) => chunks = <<>>
  /\ (cpc = "done" /\ toksLen >= 1 /\ toksLen <= max_tokens) => Len(chunks) = 1

C6_Witness ==
  /\ cpc = "done"
  /\ toksLen >= 2
  /\ toksLen <= max_tokens
  /\ chunks = <<[start |-> 0, end |-> toksLen]>>

\* ------------------------------------------------------ retrieval (Spec)
ValidCfg ==
  /\ k >= 1
  /\ diversity_lambda >= 0 /\ diversity_lambda <= LamDen
  /\ fusion_alpha >= 0 /\ fusion_alpha <= AlphaDen

\* retrieve has returned (Stage 1 is over)
StageOneDone ==
  \/ pc \in {"fusion", "rerank", "generate", "done"}
  \/ pc = "error" /\ err = "bm25"

RangeOf(s) == {s[i] : i \in 1..Len(s)}
PosIn(s, h) == CHOOSE r \in 1..Len(s) : s[r] = h

\* C1: the MMR stage never selects a candidate twice and returns exactly
\* min(k, number of candidates) items.
C1_MmrNoRepeatExactCount ==
  mmr =>
    /\ \A i, j \in 1..Len(selected) : selected[i] = selected[j] => i = j
    /\ selected # <<>> => RangeOf(selected) \cap cand_idx = {}
    /\ StageOneDone =>
         /\ Len(items) = Min(k, Len(res))
         /\ \A i, j \in 1..Len(items) : items[i].id = items[j].id => i = j

C1_Witness ==
  /\ mmr
  /\ pc = "fusion"
  /\ k >= 2
  /\ Len(items) = k
  /\ cand_idx # {}

\* C4 as stated: a request with k <= 0, or lambda or alpha outside [0,1],
\* is rejected before any capability is invoked: no embedding call, no index
\* query, no cross-encoder call has happened.
C4_InvalidConfigRejectedFirst ==
  ~ValidCfg => (embedCalls = 0 /\ queryCalls = 0 /\ ceCalls = 0)

\* C7: with diversity, fusion and rerank off, retrieve returns the k
\* lowest-distance candidates in ascending distance order, equal distances
\* in Stage-0 order.
C7_DistanceRanking ==
  (~mmr /\ StageOneDone) =>
    /\ Len(items) = Min(k, Len(res))
    /\ RangeOf(items) \subseteq RangeOf(res)
    /\ \A i \in 1..(Len(items) - 1) :
         \/ items[i].dist < items[i + 1].dist
         \/ /\ items[i].dist = items[i + 1].dist
            /\ PosIn(res, items[i]) < PosIn(res, items[i + 1])
    /\ \A r \in 1..Len(res) :
         res[r] \notin RangeOf(items) =>
           \A i \in 1..Len(items) :
             \/ items[i].dist < res[r].dist
             \/ items[i].dist = res[r].dist /\ PosIn(res, items[i]) < r
    /\ (~lexical /\ ~rerank /\ pc = "done") => contexts = items

C7_Witness ==
  /\ ~mmr /\ ~lexical /\ ~rerank
  /\ pc = "done"
  /\ k = 2
  /\ [i \in 1..Len(corpus) |-> corpus[i].dist] = <<1, 2, 9>>
  /\ contexts = <<[id |-> 1, dist |-> 1], [id |-> 2, dist |-> 2]>>

\* C8 as stated: with diversity on and diversity_lambda = 1.0 the result of
\* the diversity stage is the ascending-distance ranking truncated to k.
C8_LambdaOneIsDistanceRanking ==
  (mmr /\ diversity_lambda = LamDen /\ StageOneDone) =>
    items = PyHead(SortByDist(res), k)

\* C9 as stated: for every stage configuration the final output has at most
\* k hits, each of them a hit of the Stage-0 query, and a corpus of fewer
\* than k entries is returned whole, without error.
C9_AtMostKNoPaddingNoError ==
  ValidCfg =>
    /\ pc = "done" =>
         /\ Len(contexts) <= k
         /\ RangeOf(contexts) \subseteq RangeOf(res)
    /\ Len(corpus) < k =>
         /\ pc # "error"
         /\ pc = "done" => RangeOf(contexts) = RangeOf(corpus)

\* C10 as stated: when the index returns no entry, the request completes
\* with an empty hit sequence and no error, whichever stages are enabled.
C10_EmptyResultCompletes ==
  (ValidCfg /\ corpus = <<>>) =>
    /\ err = "none"
    /\ pc = "done" => contexts = <<>>

\* C11 as stated: when a capability fails or answers with a malformed
\* response, such as a query response without distances, the request ends in
\* an error and no ranked hit sequence is returned.
C11_MalformedResponseFails ==
  ~distances_key => pc # "done"

\* C16: build_prompt emits one entry per hit, in the order received,
\* numbered 1..n, each with that hit's source, chunk index and text, and the
\* hits it receives are the first k hits of the final order.
C16_PromptFollowsFinalOrder ==
  pc = "done" =>
    /\ Len(contexts) = Min(k, Len(hits))
    /\ \A i \in 1..Len(contexts) : contexts[i] = hits[i]
    /\ Len(prompt) = Len(contexts)
    /\ \A i \in 1..Len(prompt) :
         /\ prompt[i].index = i
         /\ prompt[i].source = SourceOf(hits[i])
         /\ prompt[i].chunk_idx = ChunkIdxOf(hits[i])
         /\ prompt[i].doc = DocOf(hits[i])

C16_Witness ==
  /\ pc = "done"
  /\ lexical
  /\ Len(prompt) = 3
  /\ prompt[1].doc = 3
  /\ prompt[3].index = 3

\* C17: Stage 0 asks the index for exactly k*3 candidates when diversity is
\* on and exactly k otherwise, never fewer than k.
C17_CandidateCount ==
  queryCalls > 0 =>
    /\ mmr => n_results = k * 3
    /\ ~mmr => n_results = k
    /\ n_results >= k

C17_Witness ==
  /\ queryCalls = 1
  /\ mmr
  /\ k = 2
  /\ n_results = 6
  /\ Len(res) = 4

\* C18: the first MMR pick has minimum distance; each later pick maximizes
\* lam*(1-dist) - (1-lam)*max dot with the picks made before it (lam is the
\* code's 0.75); ties go to the earliest Stage-0 position; the output lists
\* the picks in selection order.
C18Score(i, prior) ==
  LamNum * (DistOne - res[i].dist) * DistOne
    - (LamDen - LamNum)
        * MaxOf({Dot(emb_chunks[i], emb_chunks[prior[q]]) : q \in 1..Len(prior)})

C18_GreedyPicksEarliestBest ==
  mmr =>
    /\ pc = "mmr_loop" =>
         \A p \in 1..Len(selected) :
           LET prior == SubSeq(selected, 1, p - 1)
               pool == (1..Len(res)) \ RangeOf(prior)
               b == selected[p]
           IN  \A j \in pool :
                 IF p = 1
                 THEN \/ res[b].dist < res[j].dist
                      \/ res[b].dist = res[j].dist /\ b <= j
                 ELSE \/ C18Score(b, prior) > C18Score(j, prior)
                      \/ C18Score(b, prior) = C18Score(j, prior) /\ b <= j
    /\ StageOneDone =>
         /\ Len(items) = Len(selected)
         /\ \A i \in 1..Len(items) : items[i] = res[selected[i]]

C18_Witness ==
  /\ mmr
  /\ pc = "mmr_loop"
  /\ Len(selected) = 3
  /\ selected[2] > selected[3]
  /\ res[selected[2]].dist = res[selected[3]].dist

\* C20: the stages run in the order fetch, diversity or distance sort,
\* fusion, rerank, truncation, each enabled one once and a disabled one
\* never; fusion and rerank receive only the at most k hits of Stage 1; the
\* embedder is called once per stage that embeds and the cross-encoder once.
ExpectedStages ==
  <<"fetch">> \o (IF mmr THEN <<"diversity">> ELSE <<"sort">>)
    \o (IF lexical THEN <<"fusion">> ELSE <<>>)
    \o (IF rerank THEN <<"rerank">> ELSE <<>>)
    \o <<"truncate">>

IsPrefix(a, b) == Len(a) <= Len(b) /\ a = SubSeq(b, 1, Len(a))

CountOf(s, x) == Cardinality({i \in 1..Len(s) : s[i] = x})

C20_StageOrderAndBatching ==
  /\ IsPrefix(stages, ExpectedStages)
  /\ pc = "done" => stages = ExpectedStages
  /\ pc = "fusion" => (hits = items /\ Len(hits) <= k)
  /\ pc = "rerank" => (RangeOf(hits) = RangeOf(items) /\ Len(hits) <= k)
  /\ queryCalls = CountOf(stages, "fetch")
  /\ embedCalls <= 1 + CountOf(stages, "diversity")
  /\ stages # <<>> => embedCalls = 1 + CountOf(stages, "diversity")
  /\ ceCalls = CountOf(stages, "rerank")

C20_Witness ==
  /\ pc = "done"
  /\ mmr /\ lexical /\ rerank
  /\ Len(res) > k
  /\ Len(hits) = 2
  /\ stages = <<"fetch", "diversity", "fusion", "rerank", "truncate">>
  /\ embedCalls = 2
  /\ ceCalls = 1

\* ------------------------------------------------- bm25_mix (SpecFusion)
\* alpha*bm25(i) + (1-alpha)*(1 - dist(i)/(max dist + eps)), written out,
\* times AlphaDen*(max dist + eps)
MixedOf(i, aN) ==
  aN * bm_scores[i] * (MaxDistOf(f_hits) * EpsInv + 1)
    + (AlphaDen - aN) * ((MaxDistOf(f_hits) * EpsInv + 1) - f_hits[i].dist * EpsInv)

PosOf(out, t) == CHOOSE q \in 1..Len(out) : out[q].id = t

\* C12 as stated: bm25_mix returns its hits in descending order of the mixed
\* score, hits with equal mixed score in their original relative order.
C12_FusionDescendingStable ==
  fpc \in {"call2", "ret"} =>
    /\ RangeOf(mixed1) = RangeOf(f_hits)
    /\ Len(mixed1) = Len(f_hits)
    /\ \A q \in 1..(Len(mixed1) - 1) :
         \/ MixedOf(mixed1[q].id, alpha1) > MixedOf(mixed1[q + 1].id, alpha1)
         \/ /\ MixedOf(mixed1[q].id, alpha1) = MixedOf(mixed1[q + 1].id, alpha1)
            /\ mixed1[q].id < mixed1[q + 1].id

\* C14: for alpha1 < alpha2 the hit whose BM25 score is the highest of the
\* hit set stands at alpha2 at or before its position at alpha1.
C14_TopBm25NeverSinks ==
  (fpc = "ret" /\ alpha1 < alpha2) =>
    \A t \in 1..Len(f_hits) :
      (\A j \in 1..Len(f_hits) : j # t => bm_scores[t] > bm_scores[j]) =>
        PosOf(mixed2, t) <= PosOf(mixed1, t)

C14_Witness ==
  /\ fpc = "ret"
  /\ alpha1 < alpha2
  /\ alpha2 < AlphaDen
  /\ Len(f_hits) = 3
  /\ \E t \in 1..3 :
       /\ \A j \in 1..3 : j # t => bm_scores[t] > bm_scores[j]
       /\ \A j \in 1..3 : j # t => f_hits[t].dist > f_hits[j].dist
       /\ PosOf(mixed1, t) = 3
       /\ PosOf(mixed2, t) = 1

\* ------------------------------------- rerank_cross_encoder (SpecRerank)
\* C13: the multiset of hits leaving rerank_cross_encoder equals the
\* multiset entering it.
C13_RerankKeepsMultiset ==
  rpc = "ret" =>
    /\ Len(ranked) = Len(r_hits)
    /\ \A h \in RangeOf(r_hits) \cup RangeOf(ranked) :
         CountOf(ranked, h) = CountOf(r_hits, h)

C13_Witness ==
  /\ rpc = "ret"
  /\ Len(r_hits) = 3
  /\ r_hits[1] = r_hits[3]
  /\ r_hits[1] # r_hits[2]
  /\ ranked # r_hits

\* C19: rerank_cross_encoder orders the hits by descending score, hits with
\* equal scores in their pre-rerank relative order.
C19_RerankDescendingStable ==
  rpc = "ret" =>
    \E o \in Perms(Len(r_hits)) :
      /\ Len(ranked) = Len(r_hits)
      /\ \A i \in 1..Len(r_hits) : ranked[i] = r_hits[o[i]]
      /\ \A i \in 1..(Len(r_hits) - 1) :
           \/ scores[o[i]] > scores[o[i + 1]]
           \/ scores[o[i]] = scores[o[i + 1]] /\ o[i] < o[i + 1]

C19_Witness ==
  /\ rpc = "ret"
  /\ Len(r_hits) = 3
  /\ scores = <<0, 1, 0>>
  /\ r_hits[1] # r_hits[3]
  /\ ranked = <<r_hits[2], r_hits[1], r_hits[3]>>

\* --------------------------------------------------- ingest (SpecIngest)
EntriesFor(d, c) == {e \in index : e.source = d /\ e.chunk_idx = c}

\* C15: after ingestion has run twice over the same documents the index
\* holds exactly one entry per (source path, chunk index), and that entry
\* carries the second run's fields.
C15_ReingestOverwrites ==
  (ipc = "done" /\ run >= 2) =>
    \A d \in 1..Len(docs) :
      \A c \in 0..(ChunkCount(0, docs[d]) - 1) :
        /\ Cardinality(EntriesFor(d, c)) = 1
        /\ \A e \in EntriesFor(d, c) : e.run = run

\* ------------------------------------- concurrent requests (SpecConc)
Finished(r) == req[r].pc \in {"done", "error"}

\* C21: a retrieval request queries the index once and never writes it, and
\* under any interleaving with other requests it ends with the ranked hits
\* it would have when run alone; the index contents stay as they were.
C21_ConcurrentRequestsIndependent ==
  /\ col = col0
  /\ \A r \in Requests :
       /\ req[r].queries <= 1
       /\ Finished(r) =>
            /\ req[r].queries = 1
            /\ [hits |-> req[r].hits, err |-> req[r].err]
                 \in AloneOutcomes(col0, cfg[r])

C21_Witness ==
  /\ \A r \in Requests : req[r].pc = "done"
  /\ req[1].during = {2}
  /\ req[2].during = {}
  /\ cfg[1].k = cfg[2].k
  /\ cfg[1].q # cfg[2].q
  /\ Len(req[1].hits) >= 2
  /\ req[1].hits # req[2].hits

====
